---- MODULE Spec2Model ----
(***************************************************************************)
(* A model of papyrus: the GeoJSON and XSD renderers                       *)
(* (src/papyrus/renderers.py) and the GeoInterface mixin                   *)
(* (src/papyrus/geo_interface.py).                                         *)
(*                                                                         *)
(* Text (a response body) is a sequence of string tokens; string           *)
(* concatenation is \o.  A Python None in a place that otherwise holds     *)
(* text or a parameter value is the empty option <<>>, a present value v   *)
(* is <<v>>.                                                               *)
(***************************************************************************)
EXTENDS Integers, Sequences, FiniteSets, TLC

\* ------------------------------------------------------------------ bounds
\* Feature ids and coordinates of the rendered values range over 1..MaxId.
MaxId == 2
\* Column values, property values and feature ids range over 1..MaxVal.
MaxVal == 1

\* ------------------------------------------------------------- renderers.py
VARIABLES
    renderer,       \* the registered renderer object: class is "GeoJSON" or
                    \* "XSD", self its attributes
    given,          \* the arguments its constructor was given
    call,           \* the last render call on that object: the renderer,
                    \* its inputs, the arguments it handed to the libraries
    ret,            \* what that call returned
    response_ct     \* request.response.content_type after that call

rvars == <<renderer, given, call, ret, response_ct>>

\* The state of one mapped object (geo_interface.py).
VARIABLES
    cls,          \* the mapped class of the object
    obj,          \* the object: attrs (its attributes, None when never set)
                  \* and shape (the _shape attribute, <<>> when it has none)
    last,         \* the last operation on the object and its argument
    result,       \* the Feature the last __read__ returned, <<>> otherwise
    err,          \* the exception the last operation raised, "" when none
    applied_add,  \* for each name of __add_properties__, what the properties
                  \* of the last feature applied hold for it; <<>> before any
    last_geom     \* the geometry of the last feature applied that carried a
                  \* non-empty one; <<>> before any

gvars == <<cls, obj, last, result, err, applied_add, last_geom>>

vars == <<rvars, gvars>>

\* WebOb's Response.default_content_type, which line 85 compares with.
default_content_type == "text/html"

\* The content types a response can have when the renderer is called: the
\* default one, or one the view has set.
ContentTypes == {default_content_type, "text/plain"}

\* ---- the values a view returns ----
\* A Python value is [py, type, id, items]: py is "obj" for a geojson object,
\* "list" or "tuple" for a Python sequence of geojson objects.
PyObj(type, id) == [py |-> "obj", type |-> type, id |-> id, items |-> <<>>]
PySeq(py, items) == [py |-> py, type |-> "", id |-> 0, items |-> items]

Leaves == {PyObj("Feature", i) : i \in 1..MaxId} \cup {PyObj("Point", 1)}

LeafSeqs == {<<>>} \cup {<<a>> : a \in Leaves} \cup {<<a, b>> : a, b \in Leaves}

Values == Leaves \cup {PySeq(py, s) : py \in {"list", "tuple"}, s \in LeafSeqs}

\* geojson.factory.<name>: the factory called on a sequence gives a
\* collection object holding the sequence.
Factories == {"FeatureCollection", "GeometryCollection"}

Factory(name, seq) == [py |-> "obj", type |-> name, id |-> 0, items |-> seq.items]

\* The name of the member array of a collection in its serialization.
MemberName(type) == IF type = "GeometryCollection" THEN "geometries" ELSE "features"

RECURSIVE Flatten(_)
Flatten(ss) == IF ss = <<>> THEN <<>> ELSE Head(ss) \o Flatten(Tail(ss))

RECURSIVE Join(_)
Join(ss) ==
    IF ss = <<>> THEN <<>>
    ELSE IF Len(ss) = 1 THEN Head(ss)
    ELSE Head(ss) \o <<",">> \o Join(Tail(ss))

\* geojson.dumps(value, cls=Encoder, use_decimal=True): the JSON text.
\* A leaf object is {"type": T, "id": n}; a collection is
\* {"type": T, "<members>": [ ... ]}; a bare Python sequence is [ ... ].
DumpsLeaf(v) == <<"{", "type", ":", v.type, ",", "id", ":", ToString(v.id), "}">>

DumpsItems(items) == <<"[">> \o Join([i \in 1..Len(items) |-> DumpsLeaf(items[i])]) \o <<"]">>

dumps(v) ==
    IF v.py \in {"list", "tuple"} THEN DumpsItems(v.items)
    ELSE IF v.type \in Factories
    THEN <<"{", "type", ":", v.type, ",", MemberName(v.type), ":">>
             \o DumpsItems(v.items) \o <<"}">>
    ELSE DumpsLeaf(v)

\* ---- requests ----
ParamNames == {"callback", "cb"}
ParamVals == {"f", "g.h"}

\* request.params: a mapping from some of the parameter names to values.
Params == {<<>>} \cup {[k \in {n} |-> v] : n \in ParamNames, v \in ParamVals}
          \cup {[k \in ParamNames |-> IF k = "callback" THEN "f" ELSE "g.h"]}

\* mapping.get(key): None (<<>>) when the key is absent.
Get(m, k) == IF k \in DOMAIN m THEN <<m[k]>> ELSE <<>>

\* system.get('request'): absent, or a request with its params and the
\* content type of its response.
NoRequest == [present |-> FALSE, params |-> <<>>, ct |-> default_content_type]

Systems == {NoRequest} \cup
    {[present |-> TRUE, params |-> p, ct |-> c] : p \in Params, c \in ContentTypes}

\* ---- class GeoJSON ----
\* A collection_type is a string (basestring) naming a factory, or the
\* factory itself, a callable.
CollectionTypeArgs == {[basestring |-> b, name |-> n] : b \in BOOLEAN, n \in Factories}

\* The default argument, geojson.factory.FeatureCollection.
DefaultCollectionType == [basestring |-> FALSE, name |-> "FeatureCollection"]

\* getattr(geojson.factory, name): the factory of that name.
getattr_factory(name) == [basestring |-> FALSE, name |-> name]

\* A constructor that keeps its default factory whatever it is given.
GeoJSON_init_keepdefault(jsonp_param_name, collection_type) ==
    [jsonp_param_name |-> jsonp_param_name,
     collection_type |-> DefaultCollectionType]

\* GeoJSON.__init__, lines 69-74: the object's attributes.
GeoJSON_init(jsonp_param_name, collection_type) ==
    [jsonp_param_name |-> jsonp_param_name,
     collection_type |-> IF collection_type.basestring
                         THEN getattr_factory(collection_type.name)
                         ELSE collection_type]

\* _render, lines 78-79: the value handed to geojson.dumps.
GeoJSON_value(self, value) ==
    IF value.py \in {"list", "tuple"}
    THEN Factory(self.collection_type.name, value)
    ELSE value

\* A render that sets the content type without looking at the callback.
GeoJSON_render_alwaysjson(self, value, system) ==
    LET json == dumps(GeoJSON_value(self, value))
        callback == Get(system.params, self.jsonp_param_name)
    IN  IF system.present /\ system.ct = default_content_type
        THEN IF callback = <<>>
             THEN [ret |-> <<json>>, ct |-> "application/json"]
             ELSE [ret |-> << <<callback[1], "(">> \o json \o <<");">> >>,
                   ct |-> "application/json"]
        ELSE [ret |-> <<json>>, ct |-> system.ct]

\* _render, lines 77-93: the returned body and the response's content type
\* after the call.
GeoJSON_render(self, value, system) ==
    LET json == dumps(GeoJSON_value(self, value))
        callback == Get(system.params, self.jsonp_param_name)
    IN  IF system.present
        THEN IF system.ct = default_content_type
             THEN IF callback = <<>>
                  THEN [ret |-> <<json>>, ct |-> "application/json"]
                  ELSE [ret |-> << <<callback[1], "(">> \o json \o <<");">> >>,
                        ct |-> "text/javascript"]
             ELSE [ret |-> <<json>>, ct |-> system.ct]
        ELSE [ret |-> <<json>>, ct |-> system.ct]

\* ---- class XSD ----
\* A mapped class as get_class_xsd sees it: its columns, and whether it has
\* a relationship property and an association proxy.
Column(name, pk, fk) == [name |-> name, primary_key |-> pk, foreign_key |-> fk]

XsdClasses ==
    {[columns |-> <<Column("id", TRUE, FALSE), Column("name", FALSE, FALSE)>>,
      relationship |-> FALSE, proxy |-> FALSE],
     [columns |-> <<Column("id", TRUE, FALSE), Column("type_id", FALSE, TRUE),
                    Column("name", FALSE, FALSE)>>,
      relationship |-> TRUE, proxy |-> TRUE]}

Callbacks == {<<>>, <<"cb1">>}

XsdArgs == [include_primary_keys : BOOLEAN, include_foreign_keys : BOOLEAN,
            relationship_property_callback : Callbacks,
            association_proxy_callback : Callbacks]

XsdDefaults == [include_primary_keys |-> FALSE, include_foreign_keys |-> FALSE,
                relationship_property_callback |-> <<>>,
                association_proxy_callback |-> <<>>]

\* xsd.get_class_xsd(io, cls, **args): the schema document.  A primary-key
\* column is skipped unless include_primary_keys, a foreign-key column
\* unless include_foreign_keys; a relationship property or an association
\* proxy is handed to its callback when there is one.
XsdElement(col, args) ==
    IF col.primary_key /\ ~args.include_primary_keys THEN <<>>
    ELSE IF col.foreign_key /\ ~args.include_foreign_keys THEN <<>>
    ELSE <<"<xsd:element>", col.name>>

get_class_xsd(table, args) ==
    <<"<xsd:schema>">>
    \o Flatten([i \in 1..Len(table.columns) |-> XsdElement(table.columns[i], args)])
    \o (IF table.relationship /\ args.relationship_property_callback # <<>>
        THEN <<"<relationship>", args.relationship_property_callback[1]>> ELSE <<>>)
    \o (IF table.proxy /\ args.association_proxy_callback # <<>>
        THEN <<"<proxy>", args.association_proxy_callback[1]>> ELSE <<>>)
    \o <<"</xsd:schema>">>

\* XSD.__init__: the object's attributes.
XSD_init(args) ==
    [include_primary_keys |-> args.include_primary_keys,
     include_foreign_keys |-> args.include_foreign_keys,
     relationship_property_callback |-> args.relationship_property_callback,
     association_proxy_callback |-> args.association_proxy_callback]

\* A render that hands include_primary_keys to both include_ arguments.
XSD_args_samekeys(self) ==
    [include_primary_keys |-> self.include_primary_keys,
     include_foreign_keys |-> self.include_primary_keys,
     relationship_property_callback |-> self.relationship_property_callback,
     association_proxy_callback |-> self.association_proxy_callback]

\* _render, lines 200-206: the keyword arguments handed to get_class_xsd.
XSD_args(self) ==
    [include_primary_keys |-> self.include_primary_keys,
     include_foreign_keys |-> self.include_foreign_keys,
     relationship_property_callback |-> self.relationship_property_callback,
     association_proxy_callback |-> self.association_proxy_callback]

\* _render, lines 195-207: the returned body (None without a request) and
\* the response's content type after the call.
XSD_render(self, table, system) ==
    IF system.present
    THEN [ret |-> <<get_class_xsd(table, XSD_args(self))>>, ct |-> "application/xml"]
    ELSE [ret |-> <<>>, ct |-> system.ct]

\* ---- the renderers as a state machine ----
NoCall == [renderer |-> "none", value |-> PySeq("list", <<>>),
           cls |-> CHOOSE c \in XsdClasses : TRUE, system |-> NoRequest,
           dumped |-> PySeq("list", <<>>), args |-> XsdDefaults]

\* A GeoJSON renderer registered with its default arguments.
RInit ==
    /\ given = DefaultCollectionType
    /\ renderer = [class |-> "GeoJSON",
                   self |-> GeoJSON_init("callback", DefaultCollectionType)]
    /\ call = NoCall
    /\ ret = <<>>
    /\ response_ct = default_content_type

\* GeoJSON(jsonp_param_name, collection_type)
NewGeoJSON ==
    \E name \in ParamNames, ct \in CollectionTypeArgs :
        /\ given' = ct
        /\ renderer' = [class |-> "GeoJSON", self |-> GeoJSON_init(name, ct)]
        /\ call' = NoCall
        /\ ret' = <<>>
        /\ response_ct' = default_content_type
        /\ UNCHANGED gvars

\* XSD(include_primary_keys, include_foreign_keys, ...)
NewXSD ==
    \E args \in XsdArgs :
        /\ given' = args
        /\ renderer' = [class |-> "XSD", self |-> XSD_init(args)]
        /\ call' = NoCall
        /\ ret' = <<>>
        /\ response_ct' = default_content_type
        /\ UNCHANGED gvars

\* GeoJSON()(info)(value, system)
RenderGeoJSON ==
    /\ renderer.class = "GeoJSON"
    /\ \E value \in Values, system \in Systems :
        LET r == GeoJSON_render(renderer.self, value, system) IN
        /\ call' = [NoCall EXCEPT !.renderer = "GeoJSON", !.value = value,
                                  !.system = system,
                                  !.dumped = GeoJSON_value(renderer.self, value)]
        /\ ret' = r.ret
        /\ response_ct' = r.ct
        /\ UNCHANGED <<renderer, given>>
        /\ UNCHANGED gvars

\* XSD()(table)(cls, system)
RenderXSD ==
    /\ renderer.class = "XSD"
    /\ \E c \in XsdClasses, system \in Systems :
        LET r == XSD_render(renderer.self, c, system) IN
        /\ call' = [NoCall EXCEPT !.renderer = "XSD", !.cls = c,
                                  !.system = system,
                                  !.args = XSD_args(renderer.self)]
        /\ ret' = r.ret
        /\ response_ct' = r.ct
        /\ UNCHANGED <<renderer, given>>
        /\ UNCHANGED gvars

RNext == NewGeoJSON \/ NewXSD \/ RenderGeoJSON \/ RenderXSD

\* ---------------------------------------------------------- geo_interface.py
\* ---- Python values ----
\* A value is [t, a, n, s]: t its type, the rest what the type needs.
PV(t, a, n, s) == [t |-> t, a |-> a, n |-> n, s |-> s]
None == PV("None", "", 0, 0)
PyInt(n) == PV("int", "", n, 0)

\* A GeoJSON geometry of a type with its coordinates (one number here).
Geo(type, c) == PV("geojson", type, c, 0)
Geometries == {Geo("Point", 1), Geo("LineString", 2)}

\* An instance of geojson.geometry.Default.
DefaultGeometry == PV("geojson.Default", "", 0, 0)

\* Python truth of a geometry: None is false, an object is true.
Truthy(v) == v # None

\* shapely.geometry.asShape(geom): the shape of a GeoJSON geometry.
asShape(geom) == PV("shape", geom.a, geom.n, 0)

\* The WKB geometry type codes, and the WKB of a shape: the type code
\* followed by the coordinates (below 16).
WkbCode(type) == IF type = "Point" THEN 1 ELSE 2
WkbType(code) == IF code = 1 THEN "Point" ELSE "LineString"
Wkb(shape) == WkbCode(shape.a) * 16 + shape.n

\* geoalchemy2.shape.from_shape(shape, srid): a WKBElement.
from_shape(shape, srid) == PV("WKBElement", "", Wkb(shape), srid)

\* geoalchemy2.shape.to_shape(element): the shape its WKB holds.
to_shape(element) ==
    PV("shape", WkbType(element.n \div 16), element.n % 16, 0)

\* ---- mapped classes ----
\* A property of the mapper: a ColumnProperty (column) with the flags of its
\* first column, or another kind of property (a relationship).
ColumnProperty(key, pk, fk) ==
    [key |-> key, column |-> TRUE, primary_key |-> pk, geometry |-> FALSE,
     srid |-> 0, foreign_keys |-> fk]
GeometryProperty(key, srid) ==
    [key |-> key, column |-> TRUE, primary_key |-> FALSE, geometry |-> TRUE,
     srid |-> srid, foreign_keys |-> FALSE]
RelationshipProperty(key) ==
    [key |-> key, column |-> FALSE, primary_key |-> FALSE, geometry |-> FALSE,
     srid |-> 0, foreign_keys |-> FALSE]

\* The classes: props is class_mapper(cls).iterate_properties in order, add
\* is __add_properties__ (<<>> for None), which names properties that are
\* additional to the column properties.  A mapped class has a primary key.
Spot ==
    [name |-> "Spot",
     props |-> <<ColumnProperty("id", TRUE, FALSE), GeometryProperty("geom", 4326),
                 ColumnProperty("name", FALSE, FALSE),
                 RelationshipProperty("type_")>>,
     add |-> <<>>]

SpotWithType ==
    [name |-> "SpotWithType",
     props |-> <<ColumnProperty("id", TRUE, FALSE), GeometryProperty("geom", 4326),
                 ColumnProperty("name", FALSE, FALSE),
                 RelationshipProperty("type_")>>,
     add |-> <<"type">>]

\* Two geometry columns, and a foreign-key column called type.
TwoGeoms ==
    [name |-> "TwoGeoms",
     props |-> <<GeometryProperty("geom", 4326), ColumnProperty("type", FALSE, TRUE),
                 GeometryProperty("geom2", 3857), ColumnProperty("id", TRUE, FALSE)>>,
     add |-> <<>>]

Classes == {Spot, SpotWithType, TwoGeoms}

AttrNames == {"id", "geom", "geom2", "name", "type"}

Range(f) == {f[i] : i \in DOMAIN f}

\* ---- features ----
PropVals == {PyInt(n) : n \in 1..MaxVal}
PropNames == {"id", "name", "type"}

\* A feature as received from the client: hasid tells whether it has an id
\* attribute at all (hasattr(feature, 'id')).
FeatureIds == {[hasid |-> FALSE, id |-> None]} \cup
              {[hasid |-> TRUE, id |-> i] : i \in {None} \cup PropVals}

Features ==
    {[hasid |-> h.hasid, id |-> h.id, geometry |-> g, properties |-> p] :
        h \in FeatureIds,
        g \in {None, DefaultGeometry} \cup Geometries,
        p \in UNION {[D -> PropVals] : D \in SUBSET PropNames}}

\* dict.get(key): None when the key is absent.
PropGet(m, k) == IF k \in DOMAIN m THEN m[k] ELSE None

\* ---- the object ----
\* A new object before __init__ runs: no attribute set.
Fresh == [attrs |-> [k \in AttrNames |-> None], shape |-> <<>>]

\* hasattr(self, '_shape')
HasShape(o) == o.shape # <<>>

\* ---- GeoInterface.__update__ ----
\* The geometry test of line 96: geom and not isinstance(geom, Default).
HasGeometry(f) == Truthy(f.geometry) /\ f.geometry # DefaultGeometry

\* The loop body without the primary-key test of line 101: else in place
\* of elif not col.primary_key.
UpdateProp_writespk(p, o, f) ==
    IF ~p.column THEN o
    ELSE IF p.geometry
    THEN IF HasGeometry(f)
         THEN [o EXCEPT !.attrs[p.key] = from_shape(asShape(f.geometry), p.srid),
                        !.shape = <<asShape(f.geometry)>>]
         ELSE o
    ELSE IF p.key \in DOMAIN f.properties
    THEN [o EXCEPT !.attrs[p.key] = f.properties[p.key]]
    ELSE o

\* The loop body calling from_shape(shape) without the srid of the column
\* (from_shape's default srid is -1).
UpdateProp_nosrid(p, o, f) ==
    IF ~p.column THEN o
    ELSE IF p.geometry
    THEN IF HasGeometry(f)
         THEN [o EXCEPT !.attrs[p.key] = from_shape(asShape(f.geometry), -1),
                        !.shape = <<asShape(f.geometry)>>]
         ELSE o
    ELSE IF ~p.primary_key
    THEN IF p.key \in DOMAIN f.properties
         THEN [o EXCEPT !.attrs[p.key] = f.properties[p.key]]
         ELSE o
    ELSE o

\* Lines 91-103, the body of the loop for one property p.
UpdateProp(p, o, f) ==
    IF ~p.column THEN o
    ELSE IF p.geometry
    THEN IF HasGeometry(f)
         THEN [o EXCEPT !.attrs[p.key] = from_shape(asShape(f.geometry), p.srid),
                        !.shape = <<asShape(f.geometry)>>]
         ELSE o
    ELSE IF ~p.primary_key
    THEN IF p.key \in DOMAIN f.properties
         THEN [o EXCEPT !.attrs[p.key] = f.properties[p.key]]
         ELSE o
    ELSE o

\* Lines 90-103, the loop over the properties from the i-th on.
RECURSIVE UpdateProps(_, _, _, _)
UpdateProps(props, i, o, f) ==
    IF i > Len(props) THEN o
    ELSE UpdateProps(props, i + 1, UpdateProp(props[i], o, f), f)

\* The additional properties set only for the names the feature's
\* properties hold, as the column attributes are.
UpdateAdd_onlypresent(c, o, f) ==
    [o EXCEPT !.attrs = [k \in AttrNames |->
        IF k \in Range(c.add) /\ k \in DOMAIN f.properties
        THEN f.properties[k] ELSE o.attrs[k]]]

\* Lines 105-107: __add_properties__, when not empty, names attributes that
\* are set from the feature's properties (None for a name they lack).
UpdateAdd(c, o, f) ==
    [o EXCEPT !.attrs = [k \in AttrNames |->
        IF k \in Range(c.add) THEN PropGet(f.properties, k) ELSE o.attrs[k]]]

\* __update__(feature), lines 82-107.
GI_update(c, o, f) == UpdateAdd(c, UpdateProps(c.props, 1, o, f), f)

\* ---- GeoInterface.__init__ ----
\* Lines 73-77: the local primary_key after the loop, <<>> while unbound.
RECURSIVE PrimaryKeyFrom(_, _, _)
PrimaryKeyFrom(props, i, pk) ==
    IF i > Len(props) THEN pk
    ELSE PrimaryKeyFrom(props, i + 1,
            IF props[i].column /\ props[i].primary_key THEN <<props[i].key>> ELSE pk)

\* __init__ with the call of __update__ inside the if of line 78.
GI_init_updateonlywithid(c, fopt) ==
    IF fopt = <<>> THEN [obj |-> Fresh, err |-> ""]
    ELSE LET f == fopt[1]
             primary_key == PrimaryKeyFrom(c.props, 1, <<>>)
         IN  IF f.hasid /\ f.id # None
             THEN IF primary_key = <<>>
                  THEN [obj |-> Fresh, err |-> "UnboundLocalError"]
                  ELSE [obj |-> GI_update(c, [Fresh EXCEPT !.attrs[primary_key[1]] = f.id], f),
                        err |-> ""]
             ELSE [obj |-> Fresh, err |-> ""]

\* __init__(feature), lines 64-80, on a new object: the object and the
\* exception raised, "" when none.  fopt is <<>> for feature=None.
GI_init(c, fopt) ==
    IF fopt = <<>> THEN [obj |-> Fresh, err |-> ""]
    ELSE LET f == fopt[1]
             primary_key == PrimaryKeyFrom(c.props, 1, <<>>)
         IN  IF f.hasid /\ f.id # None
             THEN IF primary_key = <<>>
                  THEN [obj |-> Fresh, err |-> "UnboundLocalError"]
                  ELSE [obj |-> GI_update(c, [Fresh EXCEPT !.attrs[primary_key[1]] = f.id], f),
                        err |-> ""]
             ELSE [obj |-> GI_update(c, Fresh, f), err |-> ""]

\* ---- GeoInterface.__read__ ----
\* The loop body without the foreign-key test of line 130.
ReadProp_withforeignkeys(p, o, acc) ==
    IF ~p.column THEN acc
    ELSE LET val == o.attrs[p.key] IN
         IF p.primary_key THEN [acc EXCEPT !.id = val]
         ELSE IF p.geometry
         THEN IF HasShape(o) THEN [acc EXCEPT !.geometry = o.shape[1]]
              ELSE IF val # None THEN [acc EXCEPT !.geometry = to_shape(val)]
              ELSE acc
         ELSE [acc EXCEPT !.properties = (p.key :> val) @@ acc.properties]

\* Lines 118-131, the body of the loop for one property p; acc holds the
\* locals id, geom and properties.
ReadProp(p, o, acc) ==
    IF ~p.column THEN acc
    ELSE LET val == o.attrs[p.key] IN
         IF p.primary_key THEN [acc EXCEPT !.id = val]
         ELSE IF p.geometry
         THEN IF HasShape(o) THEN [acc EXCEPT !.geometry = o.shape[1]]
              ELSE IF val # None THEN [acc EXCEPT !.geometry = to_shape(val)]
              ELSE acc
         ELSE IF ~p.foreign_keys
         THEN [acc EXCEPT !.properties = (p.key :> val) @@ acc.properties]
         ELSE acc

RECURSIVE ReadProps(_, _, _, _)
ReadProps(props, i, o, acc) ==
    IF i > Len(props) THEN acc
    ELSE ReadProps(props, i + 1, o, ReadProp(props[i], o, acc))

\* Lines 133-135: the additional properties.
ReadAdd(c, o, acc) ==
    [acc EXCEPT !.properties =
        [k \in Range(c.add) |-> o.attrs[k]] @@ acc.properties]

\* __read__(), lines 109-137: the Feature returned.
GI_read(c, o) ==
    ReadAdd(c, o, ReadProps(c.props, 1, o,
                            [id |-> None, geometry |-> None, properties |-> <<>>]))

\* ---- the object as a state machine ----
Op(name, fopt, keys, nogeom) ==
    [op |-> name, feature |-> fopt, keys |-> keys, nogeom |-> nogeom]

\* What the properties of f hold for the names of __add_properties__.
AddOf(c, f) == [k \in Range(c.add) |-> PropGet(f.properties, k)]

\* The rows an object of class c can have been loaded from: the ORM sets the
\* attributes of a loaded object without calling __init__.
Loaded(c) ==
    {[attrs |-> [k \in AttrNames |->
          IF k = "id" THEN PyInt(1)
          ELSE IF k = "geom" THEN g
          ELSE IF k = "geom2" /\ c = TwoGeoms THEN g2
          ELSE IF k = "name" /\ c # TwoGeoms THEN n
          ELSE IF k = "type" /\ c # Spot THEN n
          ELSE None],
      shape |-> <<>>] :
        g \in {None} \cup {from_shape(asShape(x), 4326) : x \in Geometries},
        g2 \in IF c = TwoGeoms
               THEN {None, from_shape(asShape(Geo("Point", 1)), 3857)} ELSE {None},
        n \in {None, PyInt(1)}}

GInit ==
    /\ cls \in Classes
    /\ obj \in {Fresh} \cup Loaded(cls)
    /\ last = Op("load", <<>>, {}, FALSE)
    /\ result = <<>>
    /\ err = ""
    /\ applied_add = <<>>
    /\ last_geom = <<>>

\* cls(feature): a new object takes the place of the old one.
New ==
    \E fopt \in {<<>>} \cup {<<f>> : f \in Features} :
        LET r == GI_init(cls, fopt) IN
        /\ obj' = r.obj
        /\ err' = r.err
        /\ last' = Op("init", fopt, {}, FALSE)
        /\ result' = <<>>
        /\ applied_add' = IF fopt = <<>> THEN <<>> ELSE <<AddOf(cls, fopt[1])>>
        /\ last_geom' = IF fopt # <<>> /\ HasGeometry(fopt[1])
                        THEN <<fopt[1].geometry>> ELSE <<>>
        /\ UNCHANGED <<cls, rvars>>

\* obj.__update__(feature)
Update ==
    \E f \in Features :
        /\ obj' = GI_update(cls, obj, f)
        /\ err' = ""
        /\ last' = Op("update", <<>>, DOMAIN f.properties, ~HasGeometry(f))
        /\ result' = <<>>
        /\ applied_add' = <<AddOf(cls, f)>>
        /\ last_geom' = IF HasGeometry(f) THEN <<f.geometry>> ELSE last_geom
        /\ UNCHANGED <<cls, rvars>>

\* obj.__read__()
Read ==
    /\ result' = <<GI_read(cls, obj)>>
    /\ last' = Op("read", <<>>, {}, FALSE)
    /\ err' = ""
    /\ UNCHANGED <<cls, obj, applied_add, last_geom, rvars>>

\* obj.__geo_interface__, lines 139-145
GeoInterfaceProperty ==
    /\ result' = <<GI_read(cls, obj)>>
    /\ last' = Op("geo_interface", <<>>, {}, FALSE)
    /\ err' = ""
    /\ UNCHANGED <<cls, obj, applied_add, last_geom, rvars>>

GNext == New \/ Update \/ Read \/ GeoInterfaceProperty

\* ------------------------------------------------------------ specifications
\* The renderers alone: the object stays as it was made.
GIdle ==
    /\ cls = Spot /\ obj = Fresh /\ last = Op("load", <<>>, {}, FALSE)
    /\ result = <<>> /\ err = "" /\ applied_add = <<>> /\ last_geom = <<>>

InitRender == RInit /\ GIdle

SpecRender == InitRender /\ [][RNext]_vars

\* One mapped object alone: the renderers stay as registered.
InitGeo == GInit /\ RInit

SpecGeo == InitGeo /\ [][GNext]_vars

\* ------------------------------------------------------------------ C1
\* The last call was a GeoJSON render made with a request.
GeoJSONCalled == call.renderer = "GeoJSON" /\ call.system.present

\* The callback parameter of that request, <<>> when absent.
CallbackOf == Get(call.system.params, renderer.self.jsonp_param_name)

\* cb + '(' + json + ');'
Jsonp(cb, json) == <<cb, "(">> \o json \o <<");">>

\* C1 as stated: every GeoJSON render made with a request returns cb(json); when the
\* request has the callback parameter with value cb, and the plain
\* serialization json when it has not.
C1_BodySelection ==
    GeoJSONCalled =>
        ret = IF CallbackOf = <<>>
              THEN <<dumps(call.dumped)>>
              ELSE <<Jsonp(CallbackOf[1], dumps(call.dumped))>>

\* ------------------------------------------------------------------ C2
\* C2 as stated: after a GeoJSON render made with a request the content
\* type is text/javascript with the callback and application/json without,
\* after an XSD render it is application/xml, whatever it was before.
C2_ContentTypeAlways ==
    /\ GeoJSONCalled =>
           response_ct = IF CallbackOf = <<>> THEN "application/json"
                         ELSE "text/javascript"
    /\ call.renderer = "XSD" /\ call.system.present =>
           response_ct = "application/xml"

\* C2 amended: a GeoJSON render made with a request sets the content type,
\* to text/javascript with the callback and to application/json without,
\* when the content type was the default one before the call, and leaves it
\* as it was otherwise; an XSD render made with a request sets it to
\* application/xml whatever it was before.
C2_ContentType ==
    /\ GeoJSONCalled =>
           response_ct = IF call.system.ct # default_content_type THEN call.system.ct
                         ELSE IF CallbackOf = <<>> THEN "application/json"
                         ELSE "text/javascript"
    /\ call.renderer = "XSD" /\ call.system.present =>
           response_ct = "application/xml"

C2_Witness ==
    /\ GeoJSONCalled
    /\ call.system.ct = default_content_type
    /\ CallbackOf = <<"g.h">>
    /\ response_ct = "text/javascript"

\* ------------------------------------------------------------------ C3
\* C3: the collection type of a GeoJSON renderer is the factory its
\* constructor was given, or the factory of the name it was given, at every
\* render; a list or a tuple is serialized wrapped in it, any other value as
\* it is.
C3_CollectionType ==
    renderer.class = "GeoJSON" =>
        /\ renderer.self.collection_type = [basestring |-> FALSE, name |-> given.name]
        /\ call.renderer = "GeoJSON" =>
               /\ call.dumped =
                    IF call.value.py \in {"list", "tuple"}
                    THEN [py |-> "obj", type |-> given.name, id |-> 0,
                          items |-> call.value.items]
                    ELSE call.value
               /\ ~call.system.present => ret = <<dumps(call.dumped)>>

C3_Witness ==
    /\ call.renderer = "GeoJSON"
    /\ given = [basestring |-> TRUE, name |-> "GeometryCollection"]
    /\ call.value.py = "tuple"
    /\ Len(call.value.items) = 2
    /\ call.dumped.type = "GeometryCollection"
    /\ ~call.system.present
    /\ ret # <<>>

\* ------------------------------------------------------------------ C7
\* The names of the columns the arguments args leave out of the schema.
Skipped(c, args) ==
    {c.columns[i].name : i \in {j \in 1..Len(c.columns) :
        \/ c.columns[j].primary_key /\ ~args.include_primary_keys
        \/ c.columns[j].foreign_key /\ ~args.include_foreign_keys}}

\* C7: the options of an XSD renderer are those its constructor was given,
\* before and after every render; a render made with a request hands exactly
\* these to get_class_xsd and returns the document it generates, which names
\* no skipped column.
C7_XsdOptions ==
    renderer.class = "XSD" =>
        /\ renderer.self = given
        /\ call.renderer = "XSD" /\ call.system.present =>
               /\ call.args = given
               /\ ret = <<get_class_xsd(call.cls, given)>>
               /\ \A i \in 1..Len(ret[1]) : ret[1][i] \notin Skipped(call.cls, given)

C7_Witness ==
    /\ call.renderer = "XSD"
    /\ call.system.present
    /\ given.include_primary_keys
    /\ ~given.include_foreign_keys
    /\ given.relationship_property_callback = <<"cb1">>
    /\ Len(call.cls.columns) = 3
    /\ ret # <<>>

\* ------------------------------------------------------------------ C4
\* The key of the primary-key column of the class.
PkKey == CHOOSE k \in AttrNames :
    \E p \in Range(cls.props) : p.column /\ p.primary_key /\ p.key = k

\* The keys of the geometry columns of the class.
GeomKeys == {p.key : p \in {q \in Range(cls.props) : q.column /\ q.geometry}}

\* The keys of the columns that are no primary key, no geometry column and
\* have no foreign key.
PlainKeys == {p.key : p \in {q \in Range(cls.props) :
    q.column /\ ~q.primary_key /\ ~q.geometry /\ ~q.foreign_keys}}

WasRead == last.op \in {"read", "geo_interface"}

\* C4: the Feature that __read__ or __geo_interface__ returns has the value of
\* the primary-key attribute as its id, the shape of a geometry column as its
\* geometry (None when every geometry column is None and no shape is
\* cached), and as its properties exactly the plain columns and the names of
\* __add_properties__, each with the value of its attribute; and the call
\* changes no attribute of the object.
C4_ReadState ==
    WasRead =>
        LET r == result[1]
            set == {k \in GeomKeys : obj.attrs[k] # None}
        IN  /\ r.id = obj.attrs[PkKey]
            /\ IF set = {} /\ ~HasShape(obj) THEN r.geometry = None
               ELSE \E k \in set : r.geometry = to_shape(obj.attrs[k])
            /\ DOMAIN r.properties = PlainKeys \cup Range(cls.add)
            /\ \A k \in DOMAIN r.properties : r.properties[k] = obj.attrs[k]

ColumnKeys == {p.key : p \in {q \in Range(cls.props) : q.column}}

\* C5: once a feature was applied, each attribute that __add_properties__
\* lists holds what the properties of the last feature applied hold for its
\* name (None for a name they lack), and __read__ returns that value for the
\* name; with no __add_properties__, __read__ returns column properties only
\* and __update__ writes column attributes only.
C5_AddState ==
    /\ applied_add # <<>> =>
           \A k \in Range(cls.add) : obj.attrs[k] = applied_add[1][k]
    /\ WasRead =>
           /\ \A k \in Range(cls.add) : result[1].properties[k] = obj.attrs[k]
           /\ cls.add = <<>> => DOMAIN result[1].properties \subseteq ColumnKeys

\* C5, whole: the state part always, and with no __add_properties__ an
\* __update__ leaves every attribute that is no column as it was.
C5_AddProperties ==
    /\ []C5_AddState
    /\ [][last'.op = "update" /\ cls.add = <<>> =>
             \A k \in AttrNames \ ColumnKeys : obj'.attrs[k] = obj.attrs[k]]_vars

C5_Witness ==
    /\ cls = SpotWithType
    /\ last.op = "read"
    /\ applied_add = <<[k \in {"type"} |-> PyInt(1)]>>
    /\ result[1].properties["type"] = PyInt(1)

C9_CachedShape ==
    HasShape(obj) =>
        /\ last_geom # <<>>
        /\ obj.shape[1] = PV("shape", last_geom[1].a, last_geom[1].n, 0)
        /\ \A p \in Range(cls.props) : p.column /\ p.geometry =>
               obj.attrs[p.key] = from_shape(obj.shape[1], p.srid)
        /\ WasRead =>
               /\ result[1].geometry = obj.shape[1]
               /\ \A k \in GeomKeys : to_shape(obj.attrs[k]) = result[1].geometry

C9_Witness ==
    /\ last.op = "read"
    /\ cls = TwoGeoms
    /\ HasShape(obj)
    /\ last_geom = <<Geo("LineString", 2)>>
    /\ result[1].geometry = PV("shape", "LineString", 2, 0)
    /\ obj.attrs["geom2"].s = 3857

====
